---- MODULE Spec2Model ----
(***************************************************************************)
(* theCode/GlobalAttention.py: func_attention and GlobalAttentionGeneral.  *)
(* Tensors are records [shape, data]: data is the contiguous row-major     *)
(* storage, indices are 0-based.  Values are exact rationals [n, d].       *)
(***************************************************************************)
EXTENDS Integers, Sequences, FiniteSets, TLC

\* Python's None
None == [none |-> TRUE]

----------------------------------------------------------------------------
(* Values *)
RECURSIVE GCD(_, _)
GCD(a, b) == IF b = 0 THEN a ELSE GCD(b, a % b)

Abs(x) == IF x < 0 THEN -x ELSE x

\* Inputs, parameters and logits are integers; -inf is an integer below every
\* finite logit.  What a softmax returns, and what is computed from it, is an
\* exact rational [n, d] in lowest terms, or NaN (0/0).
NegInf == -1000000
NaN == [n |-> 0, d |-> 0]
Int2Rat(k) == [n |-> k, d |-> 1]
Zero == Int2Rat(0)
One == Int2Rat(1)

\* n/d in lowest terms, d > 0
Rat(n, d) ==
    IF d = 0 THEN NaN
    ELSE LET g == GCD(Abs(n), Abs(d))
             s == IF d < 0 THEN -1 ELSE 1
         IN [n |-> s * (n \div g), d |-> s * (d \div g)]

IsFinite(x) == x.d # 0

RatAdd(x, y) ==
    IF x.d = 0 \/ y.d = 0 THEN NaN
    ELSE IF x.d = y.d THEN Rat(x.n + y.n, x.d)
    ELSE Rat(x.n * y.d + y.n * x.d, x.d * y.d)

\* integer k times rational x
RatScale(k, x) == IF x.d = 0 THEN NaN ELSE Rat(k * x.n, x.d)

RECURSIVE Pow2(_)
Pow2(k) == IF k = 0 THEN 1 ELSE 2 * Pow2(k - 1)

RECURSIVE SumRange(_, _, _)
\* f[lo] + ... + f[hi - 1] (integers), by halves
SumRange(f, lo, hi) ==
    IF hi <= lo THEN 0
    ELSE IF hi = lo + 1 THEN f[lo]
    ELSE LET mid == (lo + hi) \div 2
         IN SumRange(f, lo, mid) + SumRange(f, mid, hi)

SumTo(f, k) == SumRange(f, 0, k)

RECURSIVE RatSumRange(_, _, _)
RatSumRange(f, lo, hi) ==
    IF hi <= lo THEN Zero
    ELSE IF hi = lo + 1 THEN f[lo]
    ELSE LET mid == (lo + hi) \div 2
         IN RatAdd(RatSumRange(f, lo, mid), RatSumRange(f, mid, hi))

\* f[0] + ... + f[k - 1]
RatSumTo(f, k) == RatSumRange(f, 0, k)

RECURSIVE Prod(_)
Prod(s) == IF s = <<>> THEN 1 ELSE Head(s) * Prod(Tail(s))

----------------------------------------------------------------------------
(* Tensors *)
Err(line, what) == [err |-> what, line |-> line]
IsErr(x) == "err" \in DOMAIN x

Numel(t) == Prod(t.shape)
Rank(t) == Len(t.shape)
Tensor(shape, data) == [shape |-> shape, data |-> data]

\* t.view(shape) where exactly one entry of shape may be -1
View(t, shape, line) ==
    IF IsErr(t) THEN t
    ELSE LET known == Prod([i \in 1..Len(shape) |-> IF shape[i] = -1 THEN 1 ELSE shape[i]])
             n == Numel(t)
             hasInfer == \E i \in 1..Len(shape) : shape[i] = -1
         IN IF hasInfer
            THEN IF known = 0 \/ n % known # 0
                 THEN Err(line, "view: shape is invalid for input size")
                 ELSE Tensor([i \in 1..Len(shape) |->
                                 IF shape[i] = -1 THEN n \div known ELSE shape[i]], t.data)
            ELSE IF known # n
                 THEN Err(line, "view: shape is invalid for input size")
                 ELSE Tensor(shape, t.data)

\* torch.transpose(t, 1, 2).contiguous() of a rank-3 tensor
Transpose12(t) ==
    IF IsErr(t) THEN t
    ELSE LET B == t.shape[1]
             M == t.shape[2]
             N == t.shape[3]
         IN Tensor(<<B, N, M>>,
                   [i \in 1..(B * M * N) |->
                       LET b == (i - 1) \div (N * M)
                           n == ((i - 1) \div M) % N
                           m == (i - 1) % M
                       IN t.data[(b * M + m) * N + n + 1]])

\* torch.bmm(x, y): (B, M, K) x (B, K, N) -> (B, M, N), integer entries
Bmm(x, y, line) ==
    IF IsErr(x) THEN x
    ELSE IF IsErr(y) THEN y
    ELSE IF Rank(x) # 3 \/ Rank(y) # 3
              \/ x.shape[1] # y.shape[1] \/ x.shape[3] # y.shape[2]
    THEN Err(line, "bmm: batch or inner dimension mismatch")
    ELSE LET B == x.shape[1]
             M == x.shape[2]
             K == x.shape[3]
             N == y.shape[3]
         IN Tensor(<<B, M, N>>,
                   [i \in 1..(B * M * N) |->
                       LET b == (i - 1) \div (M * N)
                           m == ((i - 1) \div N) % M
                           n == (i - 1) % N
                       IN SumTo([k \in 0..(K - 1) |->
                                   x.data[(b * M + m) * K + k + 1]
                                   * y.data[(b * K + k) * N + n + 1]], K)])

\* torch.bmm(x, y) with x of integers and y of softmax weights
BmmW(x, y, line) ==
    IF IsErr(x) THEN x
    ELSE IF IsErr(y) THEN y
    ELSE IF Rank(x) # 3 \/ Rank(y) # 3
              \/ x.shape[1] # y.shape[1] \/ x.shape[3] # y.shape[2]
    THEN Err(line, "bmm: batch or inner dimension mismatch")
    ELSE LET B == x.shape[1]
             M == x.shape[2]
             K == x.shape[3]
             N == y.shape[3]
         IN Tensor(<<B, M, N>>,
                   [i \in 1..(B * M * N) |->
                       LET b == (i - 1) \div (M * N)
                           m == ((i - 1) \div N) % M
                           n == (i - 1) % N
                       IN RatSumTo([k \in 0..(K - 1) |->
                                      RatScale(x.data[(b * M + m) * K + k + 1],
                                               y.data[(b * K + k) * N + n + 1])], K)])

\* exp of a logit, as the weight it contributes to a softmax row.  Logits are
\* integers here, so base 2 stands in for base e (softmax over x*ln 2).
ExpW(x) == IF x = NegInf THEN 0 ELSE Pow2(x)

\* F.softmax(t, dim), dim counted from 0
Softmax(t, dim) ==
    IF IsErr(t) THEN t
    ELSE LET n == t.shape[dim + 1]
             inner == Prod(SubSeq(t.shape, dim + 2, Len(t.shape)))
         IN Tensor(t.shape,
                   [i \in 1..Numel(t) |->
                       LET o == (i - 1) \div (n * inner)
                           k == (i - 1) % inner
                           row == [j \in 0..(n - 1) |-> t.data[(o * n + j) * inner + k + 1]]
                           z == SumTo([j \in 0..(n - 1) |-> ExpW(row[j])], n)
                       IN IF z = 0
                          THEN NaN
                          ELSE Rat(ExpW(t.data[i]), z)])

\* the dim nn.Softmax() picks when built without one (torch's legacy rule)
ImplicitDim(rank) == IF rank \in {0, 1, 3} THEN 0 ELSE 1

RECURSIVE Ravel(_, _, _)
\* flat offset of the index idx in a contiguous tensor of this shape (acc = 0)
Ravel(idx, shape, acc) ==
    IF idx = <<>> THEN acc
    ELSE Ravel(Tail(idx), Tail(shape), acc * Head(shape) + Head(idx))

\* the index of flat offset i in a contiguous tensor of this shape
Unravel(i, shape) ==
    [k \in 1..Len(shape) |->
        (i \div Prod(SubSeq(shape, k + 1, Len(shape)))) % shape[k]]

\* t.repeat(*reps) with as many repeats as t has dimensions: tiles t
Repeat(t, reps) ==
    IF IsErr(t) THEN t
    ELSE LET shape == [k \in 1..Rank(t) |-> t.shape[k] * reps[k]]
         IN Tensor(shape,
                   [i \in 1..Prod(shape) |->
                       LET idx == Unravel(i - 1, shape)
                       IN t.data[Ravel([k \in 1..Rank(t) |-> idx[k] % t.shape[k]],
                                       t.shape, 0) + 1]])

\* torch broadcasting of two shapes of equal rank
Broadcastable(s1, s2) ==
    /\ Len(s1) = Len(s2)
    /\ \A k \in 1..Len(s1) : s1[k] = s2[k] \/ s1[k] = 1 \/ s2[k] = 1

BroadcastShape(s1, s2) == [k \in 1..Len(s1) |-> IF s1[k] = 1 THEN s2[k] ELSE s1[k]]

\* the element of t that index idx of the broadcast result reads
BroadcastAt(t, idx) ==
    t.data[Ravel([k \in 1..Rank(t) |-> IF t.shape[k] = 1 THEN 0 ELSE idx[k]],
                 t.shape, 0) + 1]

\* t.masked_fill_(m, value): in place, so m must broadcast to t's own shape
MaskedFill(t, m, value, line) ==
    IF IsErr(t) THEN t
    ELSE IF IsErr(m) THEN m
    ELSE IF ~(Broadcastable(t.shape, m.shape) /\ BroadcastShape(m.shape, t.shape) = t.shape)
    THEN Err(line, "masked_fill_: mask is not broadcastable to the tensor")
    ELSE Tensor(t.shape,
                [i \in 1..Numel(t) |->
                    IF BroadcastAt(m, Unravel(i - 1, t.shape)) THEN value ELSE t.data[i]])

\* torch.mul(x, y) with broadcasting, integer entries
Mul(x, y, line) ==
    IF IsErr(x) THEN x
    ELSE IF IsErr(y) THEN y
    ELSE IF ~Broadcastable(x.shape, y.shape)
    THEN Err(line, "mul: sizes do not match")
    ELSE LET shape == BroadcastShape(x.shape, y.shape)
         IN Tensor(shape,
                   [i \in 1..Prod(shape) |->
                       LET idx == Unravel(i - 1, shape)
                       IN BroadcastAt(x, idx) * BroadcastAt(y, idx)])

\* torch.mul(x, y) with x of integers and y of softmax weights
MulW(x, y, line) ==
    IF IsErr(x) THEN x
    ELSE IF IsErr(y) THEN y
    ELSE IF ~Broadcastable(x.shape, y.shape)
    THEN Err(line, "mul: sizes do not match")
    ELSE LET shape == BroadcastShape(x.shape, y.shape)
         IN Tensor(shape,
                   [i \in 1..Prod(shape) |->
                       LET idx == Unravel(i - 1, shape)
                       IN RatScale(BroadcastAt(x, idx), BroadcastAt(y, idx))])

Unsqueeze3(t) == IF IsErr(t) THEN t ELSE Tensor(t.shape \o <<1>>, t.data)

\* t.squeeze(3): drops dimension 3 when its size is 1
Squeeze3(t) ==
    IF IsErr(t) THEN t
    ELSE IF t.shape[4] = 1 THEN Tensor(SubSeq(t.shape, 1, 3), t.data) ELSE t

\* a bias-free 1x1 convolution, weight (out, in, 1, 1), on x (B, in, H, W)
Conv2d(weight, x, line) ==
    IF IsErr(x) THEN x
    ELSE IF Rank(x) # 4 \/ x.shape[2] # weight.shape[2]
    THEN Err(line, "conv2d: input channels do not match the weight")
    ELSE LET B == x.shape[1]
             Cin == x.shape[2]
             HW == x.shape[3] * x.shape[4]
             Cout == weight.shape[1]
         IN Tensor(<<B, Cout, x.shape[3], x.shape[4]>>,
                   [i \in 1..(B * Cout * HW) |->
                       LET b == (i - 1) \div (Cout * HW)
                           o == ((i - 1) \div HW) % Cout
                           p == (i - 1) % HW
                       IN SumTo([c \in 0..(Cin - 1) |->
                                   weight.data[o * Cin + c + 1]
                                   * x.data[(b * Cin + c) * HW + p + 1]], Cin)])

\* nn.Linear: x (B, in) -> x W^T + bias, weight (out, in)
Linear(lin, x, line) ==
    IF IsErr(x) THEN x
    ELSE IF x.shape[Rank(x)] # lin.weight.shape[2]
    THEN Err(line, "linear: input features do not match the weight")
    ELSE LET B == x.shape[1]
             In == lin.weight.shape[2]
             Out == lin.weight.shape[1]
         IN Tensor(<<B, Out>>,
                   [i \in 1..(B * Out) |->
                       LET b == (i - 1) \div Out
                           o == (i - 1) % Out
                       IN SumTo([k \in 0..(In - 1) |->
                                   x.data[b * In + k + 1]
                                   * lin.weight.data[o * In + k + 1]], In)
                          + lin.bias.data[o + 1]])

----------------------------------------------------------------------------
(* theCode/GlobalAttention.py *)

\* conv1x1(in_planes, out_planes): the weight of the bias-free 1x1 convolution
conv1x1(in_planes, out_planes, w) == Tensor(<<out_planes, in_planes, 1, 1>>, w)

\* Eq. (8) gone wrong: normalizing down the rows of the view instead of along them
Eq8Softmax_OverRows(t) == Softmax(t, 0)

\* attn = nn.Softmax()(attn)  # Eq. (8), on the (batch*sourceL, queryL) view
Eq8Softmax(t) == Softmax(t, ImplicitDim(Rank(t)))

\* Eq. (2) gone wrong: normalizing down the rows of the view instead of along them
sm_OverRows(t) == Softmax(t, 0)

\* self.sm = nn.Softmax(); attn = self.sm(attn)  # Eq. (2)
sm(t) == Softmax(t, ImplicitDim(Rank(t)))

\* the sentence softmax gone wrong: taken over the batch, not the channels
SentSoftmax_OverBatch(t) == Softmax(t, 0)

\* sent_att = nn.Softmax()(sentence_vs)
SentSoftmax(t) == Softmax(t, ImplicitDim(Rank(t)))

\* targetT gone wrong: the input viewed as (batch, queryL, idf), no transpose
TargetT_ViewOnly(input, batch_size, queryL) ==
    View(input, <<batch_size, queryL, -1>>, 99)

\* target = input.view(batch_size, -1, queryL); targetT = transpose(target, 1, 2)
TargetT(input, batch_size, queryL) ==
    Transpose12(View(input, <<batch_size, -1, queryL>>, 99))

\* sourceT = self.conv_context(context.unsqueeze(3)).squeeze(3)
SourceT(conv_context, context) ==
    Squeeze3(Conv2d(conv_context, Unsqueeze3(context), 104))

\* mask = self.mask.repeat(queryL, 1); attn.data.masked_fill_(mask.data, -inf)
ApplySelfMask(attn, self_mask, queryL) ==
    IF self_mask # None
    THEN MaskedFill(attn, Repeat(self_mask, <<queryL, 1>>), NegInf, 115)
    ELSE attn

\* the return gone wrong: the two middle results in the other order
ForwardReturn_Swapped(weightedContext, weightedSentence, word_attn, sent_att) ==
    <<weightedContext, word_attn, weightedSentence, sent_att>>

\* return weightedContext, weightedSentence, word_attn, sent_att
ForwardReturn(weightedContext, weightedSentence, word_attn, sent_att) ==
    <<weightedContext, weightedSentence, word_attn, sent_att>>

\* the exception that ends the call: the first failing operation, or None
FirstErr(a, b, c) ==
    IF IsErr(a) THEN a ELSE IF IsErr(b) THEN b ELSE IF IsErr(c) THEN c ELSE None

\* GlobalAttentionGeneral.forward(self, input, sentence, context)
forward(self, input, sentence, context) ==
    LET idf == input.shape[2]
        ih == input.shape[3]
        iw == input.shape[4]
        queryL == ih * iw
        batch_size == context.shape[1]
        sourceL == context.shape[3]
        targetT == TargetT(input, batch_size, queryL)
        sourceT == SourceT(self.conv_context, context)
        attn0 == Bmm(targetT, sourceT, 109)
        attn1 == View(attn0, <<batch_size * queryL, sourceL>>, 111)
        attn2 == ApplySelfMask(attn1, self.mask, queryL)
        attn3 == sm(attn2)
        attn4 == View(attn3, <<batch_size, queryL, sourceL>>, 118)
        attn == Transpose12(attn4)
        weightedContext == View(BmmW(sourceT, attn, 124), <<batch_size, -1, ih, iw>>, 125)
        word_attn == View(attn, <<batch_size, -1, ih, iw>>, 127)
        sentence1 == Linear(self.linear, sentence, 130)
        sentence2 == View(sentence1, <<batch_size, idf, 1, 1>>, 132)
        sentence3 == Repeat(sentence2, <<1, 1, ih, iw>>)
        sentence_vs0 == Mul(input, sentence3, 136)
        sentence_vs == Conv2d(self.conv_sentence_vis, sentence_vs0, 138)
        sent_att == SentSoftmax(sentence_vs)
        weightedSentence == MulW(sentence3, sent_att, 142)
        raised == FirstErr(weightedContext, word_attn, weightedSentence)
    IN [op |-> "forward",
        input |-> input, sentence |-> sentence, context |-> context,
        mask |-> self.mask,
        raised |-> raised,
        out |-> IF raised = None
                THEN ForwardReturn(weightedContext, weightedSentence, word_attn, sent_att)
                ELSE <<>>]

\* applyMask gone wrong: an absent mask is ignored instead of clearing
applyMask_KeepOnNone(self_mask, m) == IF m = None THEN self_mask ELSE m

\* applyMask(self, mask): the new value of self.mask
applyMask(self_mask, m) == m

\* A softmax whose logits are not integers is kept as a term: the entry with
\* logits row `over` at position `at` stands for exp(over[at]) / sum_j exp(over[j]).
SoftmaxTerm(t, dim) ==
    IF IsErr(t) THEN t
    ELSE LET n == t.shape[dim + 1]
             inner == Prod(SubSeq(t.shape, dim + 2, Len(t.shape)))
         IN Tensor(t.shape,
                   [i \in 1..Numel(t) |->
                       LET o == (i - 1) \div (n * inner)
                           k == (i - 1) % inner
                       IN [at |-> ((i - 1) \div inner) % n,
                           over |-> [j \in 0..(n - 1) |->
                                        t.data[(o * n + j) * inner + k + 1]]]])

\* torch.bmm(x, y) with y a tensor of softmax terms: each entry is kept as the
\* sequence of <<coefficient, term>> pairs it sums
BmmTerm(x, y, line) ==
    IF IsErr(x) THEN x
    ELSE IF IsErr(y) THEN y
    ELSE IF x.shape[1] # y.shape[1] \/ x.shape[3] # y.shape[2]
    THEN Err(line, "bmm: batch or inner dimension mismatch")
    ELSE LET B == x.shape[1]
             M == x.shape[2]
             K == x.shape[3]
             N == y.shape[3]
         IN Tensor(<<B, M, N>>,
                   [i \in 1..(B * M * N) |->
                       LET b == (i - 1) \div (M * N)
                           m == ((i - 1) \div N) % M
                           n == (i - 1) % N
                       IN [k \in 1..K |->
                              <<x.data[(b * M + m) * K + k],
                                y.data[(b * K + k - 1) * N + n + 1]>>]])

\* attn = attn * gamma1
Scale(t, gamma1) ==
    IF IsErr(t) THEN t
    ELSE Tensor(t.shape, [i \in 1..Numel(t) |-> RatScale(gamma1, t.data[i])])

\* attn = nn.Softmax()(attn)  # Eq. (9), on the (batch*queryL, sourceL) view
Eq9Softmax(t) == SoftmaxTerm(t, ImplicitDim(Rank(t)))

\* the attention map gone wrong: taken from the transposed attention
AttnMap_OfTranspose(attn, attnT, batch_size, ih, iw) ==
    View(attnT, <<batch_size, -1, ih, iw>>, 69)

\* the attention map func_attention returns: attn.view(batch_size, -1, ih, iw)
AttnMap(attn, attnT, batch_size, ih, iw) == View(attn, <<batch_size, -1, ih, iw>>, 69)

\* func_attention(query, context, gamma1)
func_attention(query, context, gamma1) ==
    LET batch_size == query.shape[1]
        queryL == query.shape[3]
        ih == context.shape[3]
        iw == context.shape[4]
        sourceL == ih * iw
        context1 == View(context, <<batch_size, -1, sourceL>>, 42)
        contextT == Transpose12(context1)
        attn0 == Bmm(contextT, query, 48)
        attn1 == View(attn0, <<batch_size * sourceL, queryL>>, 50)
        attn2 == Eq8Softmax(attn1)
        attn3 == View(attn2, <<batch_size, sourceL, queryL>>, 54)
        attn4 == View(Transpose12(attn3), <<batch_size * queryL, sourceL>>, 57)
        attn5 == Eq9Softmax(Scale(attn4, gamma1))
        attn == View(attn5, <<batch_size, queryL, sourceL>>, 61)
        attnT == Transpose12(attn)
        weightedContext == BmmTerm(context1, attnT, 67)
        attnMap == AttnMap(attn, attnT, batch_size, ih, iw)
        raised == FirstErr(weightedContext, attnMap, attnMap)
    IN [op |-> "func_attention",
        query |-> query, context |-> context, gamma1 |-> gamma1,
        raised |-> raised,
        eq8 |-> IF raised = None THEN attn2 ELSE None,
        out |-> IF raised = None THEN <<weightedContext, attnMap>> ELSE <<>>]

----------------------------------------------------------------------------
(* Inputs *)

\* the layer is built as GlobalAttentionGeneral(Idf, Cdf)
Idf == 2
Cdf == 3
\* nn.Linear(100, idf)
LinearIn == 100
\* a call's attention matrix has at most MaxCells entries (batch * ih * iw * sourceL)
MaxCells == 8
\* a mask has at most MaxMaskCells entries (batch * sourceL)
MaxMaskCells == 4
\* tensor contents are drawn with seeds 0..MaxSeed
MaxSeed == 1

Pattern == <<1, 0, 0, 1, 1, 1, 0, 1, 0, 0, 1, 0, 1>>

GenData(n, seed) ==
    [i \in 1..n |-> Pattern[((i * (seed + 1) + 3 * seed) % Len(Pattern)) + 1]]

GenTensor(shape, seed) == Tensor(shape, GenData(Prod(shape), seed))

\* the parameters nn.Linear(in, out) starts from: two or three taps per row
GenLinear(in_features, out_features, seed) ==
    [weight |-> Tensor(<<out_features, in_features>>,
                       [i \in 1..(out_features * in_features) |->
                           LET o == (i - 1) \div in_features
                               k == (i - 1) % in_features
                           IN IF k % 41 = (7 * o + seed) % 41 THEN 1 ELSE 0]),
     bias |-> Tensor(<<out_features>>, [o \in 1..out_features |-> (o + seed) % 2])]

\* every boolean (batch, sourceL) mask of at most MaxMaskCells entries, and None
Masks ==
    {None} \cup UNION {{Tensor(<<b, s>>, d) : d \in [1..(b * s) -> BOOLEAN]} :
                          <<b, s>> \in {x \in (1..MaxMaskCells) \X (1..MaxMaskCells) :
                                           x[1] * x[2] <= MaxMaskCells}}

\* (batch, ih, iw, sourceL) of a call
Dims ==
    {x \in (1..MaxCells) \X (1..MaxCells) \X (1..MaxCells) \X (1..MaxCells) :
        x[1] * x[2] * x[3] * x[4] <= MaxCells}

\* the size a dimension has where it should be n: n, or another one
SizeOf(n) == {n, IF n = 1 THEN 2 ELSE 1}

----------------------------------------------------------------------------
VARIABLES conv_context, conv_sentence_vis, linear, mask, ret, lastMask

vars == <<conv_context, conv_sentence_vis, linear, mask, ret, lastMask>>

self == [conv_context |-> conv_context, conv_sentence_vis |-> conv_sentence_vis,
         linear |-> linear, mask |-> mask]

\* GlobalAttentionGeneral.__init__(self, idf, cdf)
Construct(idf, cdf) ==
    [conv_context |-> conv1x1(cdf, idf, GenData(idf * cdf, 0)),
     conv_sentence_vis |-> conv1x1(idf, idf, GenData(idf * idf, 1)),
     linear |-> GenLinear(LinearIn, idf, 0),
     mask |-> None]

\* layer = GlobalAttentionGeneral(Idf, Cdf)
Built == Construct(Idf, Cdf)

Init ==
    /\ conv_context = Built.conv_context
    /\ conv_sentence_vis = Built.conv_sentence_vis
    /\ linear = Built.linear
    /\ mask = Built.mask
    /\ ret = None
    /\ lastMask = None

\* layer.applyMask(m); lastMask records the argument of the call
ApplyMask ==
    /\ ret = None
    /\ \E m \in Masks :
        /\ mask' = applyMask(mask, m)
        /\ lastMask' = m
    /\ UNCHANGED <<conv_context, conv_sentence_vis, linear, ret>>

\* layer(input, sentence, context); ret holds what the call returned or raised
Forward ==
    /\ ret = None
    /\ \E x \in Dims, seed \in 0..MaxSeed :
         \E Bi \in SizeOf(x[1]), Bs \in SizeOf(x[1]) :
            ret' = forward(self,
                           GenTensor(<<Bi, Idf, x[2], x[3]>>, seed),
                           GenTensor(<<Bs, LinearIn>>, seed + 1),
                           GenTensor(<<x[1], Cdf, x[4]>>, seed + 2))
    /\ UNCHANGED <<conv_context, conv_sentence_vis, linear, mask, lastMask>>

\* the caller drops the tensors of the call (they live for one call only)
Release ==
    /\ ret # None
    /\ ret.op = "forward"
    /\ ret' = None
    /\ UNCHANGED <<conv_context, conv_sentence_vis, linear, mask, lastMask>>

Next == ApplyMask \/ Forward \/ Release

Spec == Init /\ [][Next]_vars

\* func_attention is a function of its arguments alone: every call starts from
\* drawn arguments, with no layer built
InitFA ==
    /\ conv_context = None
    /\ conv_sentence_vis = None
    /\ linear = None
    /\ mask = None
    /\ lastMask = None
    /\ \E x \in Dims, D \in 1..Idf, seed \in 0..MaxSeed, gamma1 \in {1, 4} :
         \E Bc \in SizeOf(x[1]) :
            ret = [op |-> "call",
                   query |-> GenTensor(<<x[1], D, x[2]>>, seed),
                   context |-> GenTensor(<<Bc, D, x[3], x[4]>>, seed + 1),
                   gamma1 |-> gamma1]

FuncAttention ==
    /\ ret.op = "call"
    /\ ret' = func_attention(ret.query, ret.context, ret.gamma1)
    /\ UNCHANGED <<conv_context, conv_sentence_vis, linear, mask, lastMask>>

NextFA == FuncAttention

SpecFA == InitFA /\ [][NextFA]_vars

----------------------------------------------------------------------------
(* Reading a call *)

IsCall(name) == "op" \in DOMAIN ret /\ ret.op = name
Returned(name) == IsCall(name) /\ ret.raised = None

\* t[i][j], t[i][j][k], t[i][j][k][l]
At2(t, i, j) == t.data[i * t.shape[2] + j + 1]
At3(t, i, j, k) == t.data[(i * t.shape[2] + j) * t.shape[3] + k + 1]
At4(t, i, j, k, l) == t.data[((i * t.shape[2] + j) * t.shape[3] + k) * t.shape[4] + l + 1]

Ix(n) == 0..(n - 1)

\* the sizes of a forward call: batch and sourceL are the context's
fB == ret.context.shape[1]
fS == ret.context.shape[3]
fD == ret.input.shape[2]
fH == ret.input.shape[3]
fW == ret.input.shape[4]

\* input, sentence and context agree on the batch size and fit the layer
ArgsConsistent ==
    /\ ret.input.shape[1] = fB
    /\ ret.sentence.shape = <<fB, LinearIn>>
    /\ fD = conv_context.shape[1]
    /\ ret.context.shape[2] = conv_context.shape[2]

MaskFits == ret.mask = None \/ ret.mask.shape = <<fB, fS>>

\* no row of the mask in effect is entirely true
NoFullRow ==
    ret.mask = None
    \/ \A r \in Ix(ret.mask.shape[1]) : \E s \in Ix(ret.mask.shape[2]) : ~At2(ret.mask, r, s)

weighted_context == ret.out[1]
weighted_sentence == ret.out[2]
word_attention == ret.out[3]
sentence_attention == ret.out[4]

\* the context vector of (b, s) after the context convolution, channel d
Projected(b, d, s) ==
    SumTo([c \in Ix(ret.context.shape[2]) |->
              At4(conv_context, d, c, 0, 0) * At3(ret.context, b, c, s)],
          ret.context.shape[2])

\* the similarity of spatial_input[b][:][h][w] and the projected context of (b, s)
Similarity(b, h, w, s) ==
    SumTo([d \in Ix(fD) |-> At4(ret.input, b, d, h, w) * Projected(b, d, s)], fD)

\* the sentence vector of b after the linear map, channel c
ProjectedSentence(b, c) ==
    SumTo([k \in Ix(LinearIn) |-> At2(ret.sentence, b, k) * At2(linear.weight, c, k)],
          LinearIn) + linear.bias.data[c + 1]

\* the gating convolution of input * sentence at (b, c, h, w), sentence
\* holding the projected sentence values as a (batch, channels) sequence
Gate(sentence, b, c, h, w) ==
    SumTo([e \in Ix(fD) |->
              At4(conv_sentence_vis, c, e, 0, 0)
              * At4(ret.input, b, e, h, w) * sentence[b * fD + e + 1]], fD)

NonNegative(x) == x.d > 0 /\ x.n >= 0

----------------------------------------------------------------------------
(* Claims *)

\* C1: with a (B, S) mask in effect, no row of it entirely true, forward fills
\* the similarity of (b, (h, w), s) with -inf exactly by the mask row of batch
\* element b: M[b][s] implies word_attention[b][s][h][w] = 0.
C1_MaskRowOfBatchElement ==
    (IsCall("forward") /\ ArgsConsistent /\ ret.mask # None /\ MaskFits /\ NoFullRow)
    => /\ ret.raised = None
       /\ \A b \in Ix(fB), s \in Ix(fS), h \in Ix(fH), w \in Ix(fW) :
            At2(ret.mask, b, s) => At4(word_attention, b, s, h, w) = Zero

\* C2: the mask is unset after construction and afterwards always equals the
\* argument of the most recent applyMask call; forward changes neither the mask
\* nor the parameters, and masks with the mask in effect at the call: nothing
\* is masked when it is unset, and when it is set the zero weights of every
\* attention row are the true entries of one of its rows.
C2_MaskFollowsApplyMask ==
    /\ mask = lastMask
    /\ [self EXCEPT !.mask = None] = Built
    /\ IsCall("forward") =>
         /\ ret.mask = lastMask
         /\ (ret.raised = None /\ ret.mask = None) =>
               \A i \in 1..Numel(word_attention) : word_attention.data[i].n > 0
         /\ (ret.raised = None /\ ret.mask # None) =>
               \A b \in Ix(fB), h \in Ix(fH), w \in Ix(fW) :
                  \E r \in Ix(ret.mask.shape[1]) :
                     \A s \in Ix(fS) :
                        At4(word_attention, b, s, h, w).n = 0
                        <=> At2(ret.mask, r, IF ret.mask.shape[2] = 1 THEN 0 ELSE s)

\* a forward call returned with a mask in effect that an earlier applyMask set
C2_Witness ==
    /\ Returned("forward")
    /\ lastMask # None
    /\ ret.mask = lastMask
    /\ \E i \in 1..Numel(ret.mask) : ret.mask.data[i]
    /\ \E i \in 1..Numel(ret.mask) : ~ret.mask.data[i]

\* C3: when the mask in effect has a row that is entirely true, the word
\* attention forward returns is still a defined distribution: no NaN.
C3_FullyMaskedRowStaysDefined ==
    (Returned("forward") /\ ret.mask # None /\ ~NoFullRow)
    => \A i \in 1..Numel(word_attention) : IsFinite(word_attention.data[i])

\* C6: with consistent shapes forward returns, in this order, weighted_context
\* (B, D, H, W), weighted_sentence (B, D, H, W), word_attention (B, S, H, W)
\* and sentence_attention (B, D, H, W).
C6_ForwardShapes ==
    (IsCall("forward") /\ ArgsConsistent /\ MaskFits)
    => /\ ret.raised = None
       /\ Len(ret.out) = 4
       /\ weighted_context.shape = <<fB, fD, fH, fW>>
       /\ weighted_sentence.shape = <<fB, fD, fH, fW>>
       /\ word_attention.shape = <<fB, fS, fH, fW>>
       /\ sentence_attention.shape = <<fB, fD, fH, fW>>

\* a returned call with more than one batch element and sourceL # D
C6_Witness ==
    /\ Returned("forward")
    /\ fB = 2
    /\ fH * fW > 1
    /\ fS # fD

\* C7: with consistent shapes and no mask, or a mask that leaves a position
\* unmasked in every row, word_attention is non-negative and sums to 1 over s
\* for every b and (h, w); with S = 1 every weight is exactly 1.
C7_WordAttentionIsDistribution ==
    (IsCall("forward") /\ ArgsConsistent /\ MaskFits /\ NoFullRow)
    => /\ ret.raised = None
       /\ \A b \in Ix(fB), h \in Ix(fH), w \in Ix(fW) :
            /\ \A s \in Ix(fS) : NonNegative(At4(word_attention, b, s, h, w))
            /\ RatSumTo([s \in Ix(fS) |-> At4(word_attention, b, s, h, w)], fS) = One
            /\ fS = 1 => At4(word_attention, b, 0, h, w) = One

\* a returned call on two batch elements with a mask that masks something
C7_Witness ==
    /\ Returned("forward")
    /\ fB = 2
    /\ fS >= 2
    /\ ret.mask # None
    /\ NoFullRow
    /\ \E i \in 1..Numel(ret.mask) : ret.mask.data[i]

\* C8: the softmax of the sentence branch is over the channels: for every b
\* and (h, w), sentence_attention[b][c][h][w] is the share of channel c among
\* the D channels of (b, h, w), non-negative and summing to 1 over c, and
\* weighted_sentence[b][c][h][w] is the projected sentence value of (b, c)
\* times sentence_attention[b][c][h][w].
C8_SentenceAttentionOverChannels ==
    (IsCall("forward") /\ ArgsConsistent /\ MaskFits)
    => /\ ret.raised = None
       /\ LET sentence == SubSeq([i \in 1..(fB * fD) |->
                                     ProjectedSentence((i - 1) \div fD, (i - 1) % fD)],
                                 1, fB * fD)
          IN \A b \in Ix(fB), h \in Ix(fH), w \in Ix(fW) :
               LET gate == [c \in Ix(fD) |-> Pow2(Gate(sentence, b, c, h, w))]
                   z == SumTo(gate, fD)
               IN /\ RatSumTo([c \in Ix(fD) |-> At4(sentence_attention, b, c, h, w)],
                              fD) = One
                  /\ \A c \in Ix(fD) :
                       /\ NonNegative(At4(sentence_attention, b, c, h, w))
                       /\ At4(sentence_attention, b, c, h, w) = Rat(gate[c], z)
                       /\ At4(weighted_sentence, b, c, h, w)
                            = RatScale(sentence[b * fD + c + 1],
                                       At4(sentence_attention, b, c, h, w))

\* a returned call where the gate is not uniform over the channels
C8_Witness ==
    /\ Returned("forward")
    /\ fB = 2
    /\ fH * fW >= 2
    /\ \E i \in 1..Numel(sentence_attention) : sentence_attention.data[i] # Rat(1, fD)

\* C9: a forward call in which the batch size of spatial_input, of
\* sentence_vector or of the mask in effect differs from the context's ends in
\* an error and returns nothing.
C9_BatchMismatchRaises ==
    (IsCall("forward")
     /\ (\/ ret.input.shape[1] # fB
         \/ ret.sentence.shape[1] # fB
         \/ (ret.mask # None /\ ret.mask.shape[1] # fB)))
    => ret.raised # None

\* C10: the flattening of spatial positions is the same for inputs and
\* outputs: word_attention[b][s][h][w] is the similarity of
\* spatial_input[b][:][h][w] and the projected context of (b, s), normalized
\* over the unmasked s (all s when no mask is set), and
\* weighted_context[b][d][h][w] is the sum over s of word_attention[b][s][h][w]
\* times the projected context of (b, s).
C10_FlatteningIsConsistent ==
    (IsCall("forward") /\ ArgsConsistent /\ MaskFits /\ NoFullRow)
    => /\ ret.raised = None
       /\ \A b \in Ix(fB), h \in Ix(fH), w \in Ix(fW) :
            LET kept == {s \in Ix(fS) : At4(word_attention, b, s, h, w) # Zero}
                z == SumTo([s \in Ix(fS) |->
                              IF s \in kept THEN Pow2(Similarity(b, h, w, s)) ELSE 0], fS)
            IN /\ ret.mask = None => kept = Ix(fS)
               /\ \A s \in kept :
                    At4(word_attention, b, s, h, w)
                      = Rat(Pow2(Similarity(b, h, w, s)), z)
               /\ \A d \in Ix(fD) :
                    At4(weighted_context, b, d, h, w)
                      = RatSumTo([s \in Ix(fS) |->
                                    RatScale(Projected(b, d, s),
                                             At4(word_attention, b, s, h, w))], fS)

\* a returned call with several spatial positions and a non-uniform attention
C10_Witness ==
    /\ Returned("forward")
    /\ fB = 2
    /\ fW >= 2
    /\ fS >= 2
    /\ \E i \in 1..Numel(word_attention) :
          word_attention.data[i] \notin {Zero, Rat(1, fS), One}

----------------------------------------------------------------------------
(* func_attention *)

\* the sizes of a func_attention call: batch and queryL are the query's
aB == ret.query.shape[1]
aD == ret.query.shape[2]
aQ == ret.query.shape[3]
aIh == ret.context.shape[3]
aIw == ret.context.shape[4]
aS == aIh * aIw

\* query (B, D, Q) and context (B, D, ih, iw)
FAConsistent == ret.context.shape[1] = aB /\ ret.context.shape[2] = aD

\* the similarity of context position s = i * iw + j and query position q
FASimilarity(b, s, q) ==
    SumTo([d \in Ix(aD) |->
              At4(ret.context, b, d, s \div aIw, s % aIw) * At3(ret.query, b, d, q)], aD)

\* attn[b][s][q] after the first softmax, held as (batch*sourceL, queryL)
Eq8(b, s, q) == At2(ret.eq8, b * aS + s, q)

\* attn[b][q][s] after the second softmax
Eq9(b, q, s) == [at |-> s, over |-> [t \in Ix(aS) |-> RatScale(ret.gamma1, Eq8(b, t, q))]]

\* C4 as stated: the first softmax (Eq. 8) normalizes over the S axis for each
\* query position: for every b and q the S entries attn[b][s][q] are
\* non-negative and sum to 1 over s.
C4_Eq8NormalizesOverS ==
    (IsCall("func_attention") /\ FAConsistent)
    => /\ ret.raised = None
       /\ \A b \in Ix(aB), q \in Ix(aQ) :
            /\ \A s \in Ix(aS) : NonNegative(Eq8(b, s, q))
            /\ RatSumTo([s \in Ix(aS) |-> Eq8(b, s, q)], aS) = One

\* C4, amended: the first softmax (Eq. 8) normalizes over the query axis for
\* each context position: for every b and s the Q entries attn[b][s][q] are
\* the shares of q among the query positions, non-negative and summing to 1
\* over q.
C4_Eq8NormalizesOverQ ==
    (IsCall("func_attention") /\ FAConsistent)
    => /\ ret.raised = None
       /\ \A b \in Ix(aB), s \in Ix(aS) :
            /\ RatSumTo([q \in Ix(aQ) |-> Eq8(b, s, q)], aQ) = One
            /\ \A q \in Ix(aQ) :
                 /\ NonNegative(Eq8(b, s, q))
                 /\ Eq8(b, s, q)
                      = Rat(Pow2(FASimilarity(b, s, q)),
                            SumTo([p \in Ix(aQ) |-> Pow2(FASimilarity(b, s, p))], aQ))

\* a returned call with several query and context positions and a first
\* softmax that is not uniform
C4_Witness ==
    /\ Returned("func_attention")
    /\ aQ >= 2
    /\ aS >= 2
    /\ \E i \in 1..Numel(ret.eq8) : ret.eq8.data[i] # Rat(1, aQ)

\* C5 as stated: func_attention returns a weighted context of shape (B, D, Q)
\* and an attention map of shape (B, S, ih, iw), for every Q.
C5_AttnMapShapeBSihiw ==
    (IsCall("func_attention") /\ FAConsistent)
    => /\ ret.raised = None
       /\ ret.out[1].shape = <<aB, aD, aQ>>
       /\ ret.out[2].shape = <<aB, aS, aIh, aIw>>

\* C5, amended: func_attention returns a weighted context of shape (B, D, Q)
\* and an attention map of shape (B, Q, ih, iw): for every query position q,
\* the second-softmax weight of context position (i, j); each weighted-context
\* entry (b, d, q) sums context[b][d][s] times that weight over s.
C5_AttnMapShapeBQihiw ==
    (IsCall("func_attention") /\ FAConsistent)
    => /\ ret.raised = None
       /\ ret.out[1].shape = <<aB, aD, aQ>>
       /\ ret.out[2].shape = <<aB, aQ, aIh, aIw>>
       /\ \A b \in Ix(aB), q \in Ix(aQ) :
            /\ \A i \in Ix(aIh), j \in Ix(aIw) :
                 At4(ret.out[2], b, q, i, j) = Eq9(b, q, i * aIw + j)
            /\ \A d \in Ix(aD) :
                 At3(ret.out[1], b, d, q)
                   = [k \in 1..aS |->
                        <<At4(ret.context, b, d, (k - 1) \div aIw, (k - 1) % aIw),
                          Eq9(b, q, k - 1)>>]

\* a returned call whose query length differs from its context length
C5_Witness ==
    /\ Returned("func_attention")
    /\ ret.raised = None
    /\ aQ # aS
    /\ aQ >= 2
    /\ aS >= 2
====
